---- MODULE Spec2Model ----
(***************************************************************************)
(* A model of script.ts: one run of main(), which reads the GolfLink       *)
(* numbers from the sheet (getGAValues), drives one browser to scrape a    *)
(* handicap per number (scrapeHandicaps) and writes the results back in    *)
(* one batch (updateHandicap).                                             *)
(*                                                                         *)
(* The run is a single thread of control.  pc names the place the run is   *)
(* at; every call to a collaborator (Sheets API, puppeteer) either         *)
(* resolves or rejects, and a rejection takes the path the code's          *)
(* try/catch/finally blocks give it.  The only other actor is the          *)
(* operator, who presses ENTER while the run waits on stdin.               *)
(*                                                                         *)
(* A JavaScript value of type `string | null | undefined` is modelled as   *)
(* a sequence of length at most one: <<>> is null/undefined, <<s>> is s.   *)
(***************************************************************************)
EXTENDS Integers, Sequences, FiniteSets, TLC

(***************************************************************************)
(* Bounds of the model.                                                    *)
(***************************************************************************)
MaxRows == 2

(***************************************************************************)
(* Program constants.                                                      *)
(***************************************************************************)
\* RANGE = "Sheet1!A2:D": four columns, first data row is row 2
NumCols == 4
FirstRow == 2

VARIABLES
    table,      \* the cells the Sheets API returns for RANGE
    pc,         \* where main() is
    rows,       \* main's `rows`: RowData[]
    idx,        \* index in rows of the record the for-loop is at (0: none yet)
    results,    \* scrapeHandicaps' `results`: UpdateData[]
    browser,    \* "none", "open", or "closed" once browser.close() has resolved
    launches,   \* number of puppeteer.launch() calls that resolved
    closes,     \* number of browser.close() calls made
    pages,      \* pages opened and not closed: 0 is the login page, i the scrapePage of rows[i]
    signalled,  \* the operator has pressed ENTER
    lookups,    \* the lookups started, in order: the record's index and how it ended
    requests,   \* the batchUpdate requests issued, in order
    updateCalls,\* number of calls of updateHandicap
    console     \* what was logged, in order

vars == <<table, pc, rows, idx, results, browser, launches, closes, pages,
          signalled, lookups, requests, updateCalls, console>>

(***************************************************************************)
(* Values                                                                  *)
(***************************************************************************)
Null == <<>>
Some(s) == <<s>>

\* JavaScript `x || d` for x: string | undefined
OrElse(x, d) == IF x # Null /\ x[1] # "" THEN x[1] ELSE d

\* JavaScript `x || null` for x: string | undefined
OrNull(x) == IF x # Null /\ x[1] # "" THEN x ELSE Null

\* row[k-1] of a raw row: undefined past its end
Cell(row, k) == IF k <= Len(row) THEN Some(row[k]) ELSE Null

(***************************************************************************)
(* The sheet.  The Sheets API omits trailing empty cells of a row and      *)
(* trailing empty rows, so a raw row never ends with "" and a table never  *)
(* ends with an empty row.  A cell is missing (the row is too short) or    *)
(* holds one of the texts of its column; an empty name reads as a missing  *)
(* one (row[0] || ""), so the name column holds one text only.             *)
(***************************************************************************)
CellTexts(k) ==
    CASE k = 1 -> {"Alice"}
      [] k = 2 -> {"", "1001", "1002"}
      [] k = 3 -> {"", "9.9"}
      [] OTHER -> {"", "u"}

AllTexts == UNION {CellTexts(k) : k \in 1..NumCols}

RawRows ==
    {r \in UNION {[1..n -> AllTexts] : n \in 0..NumCols} :
        /\ \A k \in 1..Len(r) : r[k] \in CellTexts(k)
        /\ Len(r) > 0 => r[Len(r)] # ""}

Tables ==
    {t \in UNION {[1..n -> RawRows] : n \in 0..MaxRows} :
        Len(t) > 0 => t[Len(t)] # <<>>}

\* response.data.values: absent when the range holds no data
ResponseValues(t) == IF Len(t) = 0 THEN <<>> ELSE <<t>>

(***************************************************************************)
(* getGAValues: map, then filter                                           *)
(***************************************************************************)
\* faulty variant: the header row is not skipped (row numbers start at 1)
RowDataOfFromRowOne(row, index) ==
    [row      |-> index + 1,
     name     |-> OrElse(Cell(row, 1), ""),
     gaNumber |-> OrElse(Cell(row, 2), ""),
     handicap |-> OrNull(Cell(row, 3)),
     url      |-> OrNull(Cell(row, 4))]

RowDataOf(row, index) ==
    [row      |-> index + FirstRow,
     name     |-> OrElse(Cell(row, 1), ""),
     gaNumber |-> OrElse(Cell(row, 2), ""),
     handicap |-> OrNull(Cell(row, 3)),
     url      |-> OrNull(Cell(row, 4))]

\* JavaScript truthiness of a string
Truthy(s) == s # ""

KeepRow(r) == Truthy(r.gaNumber)

RECURSIVE Filter(_)
Filter(s) ==
    IF s = <<>> THEN <<>>
    ELSE IF KeepRow(Head(s)) THEN <<Head(s)>> \o Filter(Tail(s))
         ELSE Filter(Tail(s))

GAValues(values) ==
    LET raw == IF values = <<>> THEN <<>> ELSE values[1]
        mapped == [i \in 1..Len(raw) |-> RowDataOf(raw[i], i - 1)]
    IN  Filter(mapped)

(***************************************************************************)
(* updateHandicap: the batch                                               *)
(***************************************************************************)
RangeOf(row) == "Sheet1!C" \o ToString(row) \o ":D" \o ToString(row)

DataOf(updates) ==
    [i \in 1..Len(updates) |->
        [range  |-> RangeOf(updates[i].row),
         values |-> <<<<updates[i].handicap, updates[i].url>>>>]]

(***************************************************************************)
(* scrapeHandicaps: the values of one record                               *)
(***************************************************************************)
ProfileUrl(gaNumber) ==
    "https://www.golf.org.au/member/dashboard?golfLinkNo=" \o gaNumber

\* el.textContent of the handicap element
DomTexts == {Null, Some(""), Some("  "), Some(" 7.4 "), Some("12")}

\* String.prototype.trim on the texts of DomTexts
Trim(s) ==
    CASE s = "  " -> ""
      [] s = " 7.4 " -> "7.4"
      [] OTHER -> s

\* el.textContent?.trim() || null
HandicapValue(text) ==
    IF text = Null THEN Null ELSE OrNull(Some(Trim(text[1])))

Scraped(r, text) ==
    [row |-> r.row, handicap |-> HandicapValue(text), url |-> Some(ProfileUrl(r.gaNumber))]

Failed(r) ==
    [row |-> r.row, handicap |-> Some("Error"), url |-> Some("")]

(***************************************************************************)
(* Init                                                                    *)
(***************************************************************************)
Init ==
    /\ table \in Tables
    /\ pc = "authorize"
    /\ rows = <<>>
    /\ idx = 0
    /\ results = <<>>
    /\ browser = "none"
    /\ launches = 0
    /\ closes = 0
    /\ pages = {}
    /\ signalled = FALSE
    /\ lookups = <<>>
    /\ requests = <<>>
    /\ updateCalls = 0
    /\ console = <<>>


(***************************************************************************)
(* main().catch(console.error): a rejection that reaches main ends the run *)
(***************************************************************************)
Rejects(step) ==
    /\ pc' = "rejected"
    /\ console' = Append(console, "error: " \o step)

(***************************************************************************)
(* main, lines 137-140                                                     *)
(***************************************************************************)
Authorize ==
    /\ pc = "authorize"
    /\ \/ /\ pc' = "getGAValues"
          /\ console' = Append(console, "Fetching GolfLink numbers from Google Sheets...")
       \/ Rejects("authorize")
    /\ UNCHANGED <<table, rows, idx, results, browser, launches, closes, pages,
                   signalled, lookups, requests, updateCalls>>

GetGAValues ==
    /\ pc = "getGAValues"
    /\ \/ /\ rows' = GAValues(ResponseValues(table))
          /\ pc' = "launch"
          /\ console' = Append(console, "Starting Puppeteer to scrape data...")
       \/ /\ Rejects("values.get")
          /\ UNCHANGED rows
    /\ UNCHANGED <<table, idx, results, browser, launches, closes, pages,
                   signalled, lookups, requests, updateCalls>>

(***************************************************************************)
(* scrapeHandicaps, lines 81-93: the session                               *)
(***************************************************************************)
Launch ==
    /\ pc = "launch"
    /\ \/ /\ browser' = "open"
          /\ launches' = launches + 1
          /\ pc' = "login.newPage"
          /\ console' = Append(console, "Navigating to login page...")
       \/ /\ Rejects("launch")
          /\ UNCHANGED <<browser, launches>>
    /\ UNCHANGED <<table, rows, idx, results, closes, pages, signalled, lookups,
                   requests, updateCalls>>

LoginNewPage ==
    /\ pc = "login.newPage"
    /\ \/ /\ pages' = pages \cup {0}
          /\ pc' = "login.goto"
       \/ /\ pc' = "outerCatch"
          /\ UNCHANGED pages
    /\ UNCHANGED <<table, rows, idx, results, browser, launches, closes, signalled,
                   lookups, requests, updateCalls, console>>

\* faulty variant: the loop starts without waiting for the operator
LoginGotoNoWait ==
    /\ pc = "login.goto"
    /\ \/ /\ pc' = "loop"
          /\ console' = Append(console, "Please log in manually and press ENTER in the terminal once logged in.")
       \/ /\ pc' = "outerCatch"
          /\ UNCHANGED console
    /\ UNCHANGED <<table, rows, idx, results, browser, launches, closes, pages,
                   signalled, lookups, requests, updateCalls>>

LoginGoto ==
    /\ pc = "login.goto"
    /\ \/ /\ pc' = "stdin"
          /\ console' = Append(console, "Please log in manually and press ENTER in the terminal once logged in.")
       \/ /\ pc' = "outerCatch"
          /\ UNCHANGED console
    /\ UNCHANGED <<table, rows, idx, results, browser, launches, closes, pages,
                   signalled, lookups, requests, updateCalls>>

\* line 93: the promise resolves on the first data event of stdin
OperatorSignal ==
    /\ pc = "stdin"
    /\ signalled' = TRUE
    /\ pc' = "loop"
    /\ UNCHANGED <<table, rows, idx, results, browser, launches, closes, pages,
                   lookups, requests, updateCalls, console>>

(***************************************************************************)
(* scrapeHandicaps, lines 95-125: the loop                                 *)
(***************************************************************************)
\* the lookup in progress ends as `how`
Ended(how) == [lookups EXCEPT ![Len(lookups)].status = how]

Loop ==
    /\ pc = "loop"
    /\ IF idx < Len(rows)
       THEN /\ idx' = idx + 1
            /\ lookups' = Append(lookups, [index |-> idx + 1, status |-> "pending"])
            /\ pc' = "newPage"
       ELSE /\ pc' = "finally"
            /\ UNCHANGED <<idx, lookups>>
    /\ UNCHANGED <<table, rows, results, browser, launches, closes, pages,
                   signalled, requests, updateCalls, console>>

NewPage ==
    /\ pc = "newPage"
    /\ \/ /\ pages' = pages \cup {idx}
          /\ pc' = "goto"
          /\ UNCHANGED lookups
       \/ /\ pc' = "catch"
          /\ lookups' = Ended("failed")
          /\ UNCHANGED pages
    /\ UNCHANGED <<table, rows, idx, results, browser, launches, closes,
                   signalled, requests, updateCalls, console>>

Goto ==
    /\ pc = "goto"
    /\ \/ /\ pc' = "waitForSelector"
          /\ UNCHANGED lookups
       \/ /\ pc' = "catch"
          /\ lookups' = Ended("failed")
    /\ UNCHANGED <<table, rows, idx, results, browser, launches, closes, pages,
                   signalled, requests, updateCalls, console>>

WaitForSelector ==
    /\ pc = "waitForSelector"
    /\ \/ /\ pc' = "$eval"
          /\ UNCHANGED lookups
       \/ /\ pc' = "catch"
          /\ lookups' = Ended("failed")
    /\ UNCHANGED <<table, rows, idx, results, browser, launches, closes, pages,
                   signalled, requests, updateCalls, console>>

\* lines 105-114: $eval resolves and the outcome is pushed
Eval ==
    /\ pc = "$eval"
    /\ \/ \E text \in DomTexts :
             /\ results' = Append(results, Scraped(rows[idx], text))
             /\ lookups' = Ended("ok")
             /\ pc' = "close"
       \/ /\ pc' = "catch"
          /\ lookups' = Ended("failed")
          /\ UNCHANGED results
    /\ UNCHANGED <<table, rows, idx, browser, launches, closes, pages,
                   signalled, requests, updateCalls, console>>

\* line 116, inside the try block: a rejected close goes to the inner catch
\* like any other step, and the page is not known to be closed
ClosePage ==
    /\ pc = "close"
    /\ \/ /\ pages' = pages \ {idx}
          /\ pc' = "loop"
       \/ /\ pc' = "catch"
          /\ UNCHANGED pages
    /\ UNCHANGED <<table, rows, idx, results, browser, launches, closes,
                   signalled, lookups, requests, updateCalls, console>>

\* faulty variant: a failed record is looked up again
CatchRetry ==
    /\ pc = "catch"
    /\ console' = Append(console, "Failed to fetch data for GolfLink number " \o rows[idx].gaNumber)
    /\ lookups' = Append(lookups, [index |-> idx, status |-> "pending"])
    /\ pc' = "newPage"
    /\ UNCHANGED <<table, rows, idx, results, browser, launches, closes, pages,
                   signalled, requests, updateCalls>>

\* lines 117-124
Catch ==
    /\ pc = "catch"
    /\ console' = Append(console, "Failed to fetch data for GolfLink number " \o rows[idx].gaNumber)
    /\ results' = Append(results, Failed(rows[idx]))
    /\ pc' = "loop"
    /\ UNCHANGED <<table, rows, idx, browser, launches, closes, pages,
                   signalled, lookups, requests, updateCalls>>

(***************************************************************************)
(* scrapeHandicaps, lines 126-132                                          *)
(***************************************************************************)
\* faulty variant: browser.close() after the try statement, not in its finally block
OuterCatchNoFinally ==
    /\ pc = "outerCatch"
    /\ console' = Append(Append(console, "Scraping error:"),
                         "Updating Google Sheets with the scraped data...")
    /\ pc' = "updateHandicap"
    /\ UNCHANGED <<table, rows, idx, results, browser, launches, closes, pages,
                   signalled, lookups, requests, updateCalls>>

OuterCatch ==
    /\ pc = "outerCatch"
    /\ console' = Append(console, "Scraping error:")
    /\ pc' = "finally"
    /\ UNCHANGED <<table, rows, idx, results, browser, launches, closes, pages,
                   signalled, lookups, requests, updateCalls>>

\* browser.close(), then `return results` to main (line 145)
Finally ==
    /\ pc = "finally"
    /\ closes' = closes + 1
    /\ \/ /\ browser' = "closed"
          /\ pages' = {}
          /\ pc' = "updateHandicap"
          /\ console' = Append(console, "Updating Google Sheets with the scraped data...")
       \/ /\ Rejects("browser.close")
          /\ UNCHANGED <<browser, pages>>
    /\ UNCHANGED <<table, rows, idx, results, launches, signalled, lookups,
                   requests, updateCalls>>

(***************************************************************************)
(* updateHandicap, lines 59-77, and main, line 148                         *)
(***************************************************************************)
Request(data) ==
    [spreadsheetId |-> "1WpH3IU2jGAmWnit4ihTUocxacbXRxbxkRQMTtc_-ivc",
     data |-> data,
     valueInputOption |-> "USER_ENTERED"]

\* faulty variant: the request is sent whether or not there is data
UpdateHandicapNoGuard ==
    /\ pc = "updateHandicap"
    /\ updateCalls' = updateCalls + 1
    /\ requests' = Append(requests, Request(DataOf(results)))
    /\ pc' = "batchUpdate"
    /\ UNCHANGED <<table, rows, idx, results, browser, launches, closes, pages,
                   signalled, lookups, console>>

UpdateHandicap ==
    /\ pc = "updateHandicap"
    /\ updateCalls' = updateCalls + 1
    /\ LET data == DataOf(results) IN
       IF Len(data) > 0
       THEN /\ requests' = Append(requests, Request(data))
            /\ pc' = "batchUpdate"
            /\ UNCHANGED console
       ELSE /\ pc' = "resolved"
            /\ console' = Append(console, "Google Sheets updated successfully!")
            /\ UNCHANGED requests
    /\ UNCHANGED <<table, rows, idx, results, browser, launches, closes, pages,
                   signalled, lookups>>

BatchUpdate ==
    /\ pc = "batchUpdate"
    /\ \/ /\ pc' = "resolved"
          /\ console' = Append(console, "Google Sheets updated successfully!")
       \/ Rejects("batchUpdate")
    /\ UNCHANGED <<table, rows, idx, results, browser, launches, closes, pages,
                   signalled, lookups, requests, updateCalls>>

Next ==
    \/ Authorize
    \/ GetGAValues
    \/ Launch
    \/ LoginNewPage
    \/ LoginGoto
    \/ OperatorSignal
    \/ Loop
    \/ NewPage
    \/ Goto
    \/ WaitForSelector
    \/ Eval
    \/ ClosePage
    \/ Catch
    \/ OuterCatch
    \/ Finally
    \/ UpdateHandicap
    \/ BatchUpdate

Spec == Init /\ [][Next]_vars


(***************************************************************************)
(* Vocabulary of the properties                                            *)
(***************************************************************************)
Logged(msg) == \E i \in 1..Len(console) : console[i] = msg

\* the identifier cell (column B) of a raw row, "" when the cell is missing
IdOf(raw) == IF Len(raw) >= 2 THEN raw[2] ELSE ""

\* A1 notation of columns c1..c2 of one row of Sheet1
A1Range(c1, row, c2) == "Sheet1!" \o c1 \o ToString(row) \o ":" \o c2 \o ToString(row)

\* getGAValues has returned
ReadDone == pc \notin {"authorize", "getGAValues"}
            /\ ~Logged("error: authorize") /\ ~Logged("error: values.get")

\* scrapeHandicaps has returned its results to main
Returned == pc \in {"updateHandicap", "batchUpdate", "resolved"}
            \/ Logged("error: batchUpdate")

\* scrapeHandicaps is over: it has returned, or browser.close() has thrown
ScrapeOver == Returned \/ Logged("error: browser.close")

\* the run is inside the lookup of record idx
InLookup == pc \in {"newPage", "goto", "waitForSelector", "$eval"}

\* the outcomes emitted for the record at index i of rows
OutcomesOf(i) == {j \in 1..Len(results) : results[j].row = rows[i].row}

\* the entries written by the batch, in order (none when no request was issued)
Written == IF requests = <<>> THEN <<>> ELSE requests[1].data

(***************************************************************************)
(* C1: the sequence scrapeHandicaps returns has the length of its input,   *)
(* and its i-th outcome has the row of the i-th record: nothing dropped,   *)
(* duplicated or reordered, whichever lookups of the loop succeed or fail. *)
(***************************************************************************)
C1_OneOutcomePerRecordInOrder ==
    (signalled /\ Returned) =>
        /\ Len(results) = Len(rows)
        /\ \A i \in 1..Len(results) : i <= Len(rows) /\ results[i].row = rows[i].row

(***************************************************************************)
(* C2: the outcomes of a record are decided by its lookup alone: after a   *)
(* lookup that succeeded every outcome of the record is (extracted text    *)
(* or null, the URL templated from its identifier); after a lookup that    *)
(* failed it is ("Error", ""), and the failure stays inside the loop.      *)
(***************************************************************************)
C2_OutcomeDecidedByLookup ==
    \A k \in 1..Len(lookups) :
        LET r == rows[lookups[k].index] IN
        \A j \in OutcomesOf(lookups[k].index) :
            /\ lookups[k].status = "ok" =>
                  /\ results[j].row = r.row
                  /\ results[j].url = Some(ProfileUrl(r.gaNumber))
                  /\ results[j].handicap \in {HandicapValue(t) : t \in DomTexts}
            /\ lookups[k].status = "failed" =>
                  /\ results[j] = [row |-> r.row, handicap |-> Some("Error"), url |-> Some("")]

(***************************************************************************)
(* C3: a fatal failure aborts the run.  After a failure to set the session *)
(* up (launch, login view) no later phase runs: no record is processed,    *)
(* updateHandicap is not called and success is not reported.               *)
(***************************************************************************)
SetupFailed == Logged("error: launch") \/ Logged("Scraping error:")

FatalFailure ==
    \/ Logged("error: authorize") \/ Logged("error: values.get")
    \/ SetupFailed \/ Logged("error: batchUpdate")

C3_FatalFailureAborts ==
    /\ FatalFailure =>
          /\ pc \notin {"updateHandicap", "batchUpdate", "resolved"}
          /\ ~Logged("Google Sheets updated successfully!")
    /\ SetupFailed => lookups = <<>> /\ requests = <<>> /\ updateCalls = 0

(***************************************************************************)
(* C4: updateHandicap issues at most one request per call.  For a          *)
(* non-empty sequence of outcomes it issues exactly one, whose entries     *)
(* are, in order, the range C<row>:D<row> with the values (handicap, url)  *)
(* of each outcome; for an empty sequence it issues none and does not      *)
(* fail.                                                                   *)
(***************************************************************************)
C4_OneBatchPerCall ==
    /\ Len(requests) <= updateCalls
    /\ updateCalls = 1 =>
          IF results # <<>>
          THEN /\ Len(requests) = 1
               /\ Len(requests[1].data) = Len(results)
               /\ \A i \in 1..Len(results) :
                     /\ requests[1].data[i].range =
                            A1Range("C", results[i].row, "D")
                     /\ requests[1].data[i].values =
                            << <<results[i].handicap, results[i].url>> >>
          ELSE /\ requests = <<>>
               /\ pc = "resolved"

C4_Witness ==
    /\ updateCalls = 1
    /\ Len(requests) = 1
    /\ Len(requests[1].data) = 2
    /\ requests[1].data[1].range = "Sheet1!C2:D2"
    /\ requests[1].data[2].range = "Sheet1!C3:D3"

(***************************************************************************)
(* C5: getGAValues returns exactly the rows whose identifier cell is       *)
(* non-empty after defaulting, in order, each with row = raw index + 2;    *)
(* so the rows are strictly increasing and a row without identifier never  *)
(* appears.  A short row raises nothing: the read has returned.            *)
(***************************************************************************)
C5_RowReader ==
    ReadDone =>
        /\ \A i \in 1..Len(table) :
              (IdOf(table[i]) # "") <=> (\E j \in 1..Len(rows) : rows[j].row = (i - 1) + 2)
        /\ \A j \in 1..Len(rows) :
              /\ rows[j].row - 1 \in 1..Len(table)
              /\ rows[j].gaNumber = IdOf(table[rows[j].row - 1])
              /\ rows[j].gaNumber # ""
        /\ \A j \in 1..Len(rows), k \in 1..Len(rows) :
              j < k => rows[j].row < rows[k].row

C5_Witness ==
    /\ ReadDone
    /\ Len(table) = 2
    /\ Len(table[1]) = 1
    /\ Len(rows) = 1
    /\ rows[1].row = 3

(***************************************************************************)
(* C6: the browser is launched at most once; once launched, close() is     *)
(* called on it exactly once by the time scrapeHandicaps is over, on every *)
(* path; and no lookup runs after the close.                               *)
(***************************************************************************)
C6_SessionReleasedOnce ==
    /\ launches <= 1
    /\ closes <= launches
    /\ (ScrapeOver /\ launches = 1) => closes = 1
    /\ closes > 0 => ~InLookup /\ pc \notin {"loop", "close", "catch"}
    /\ (Returned /\ launches = 1) => browser = "closed"

C6_Witness ==
    /\ Logged("Scraping error:")
    /\ Returned
    /\ launches = 1
    /\ closes = 1

(***************************************************************************)
(* C7: the view of a record is closed once its outcome is emitted and      *)
(* before the next record's view is opened: at the head of the loop no     *)
(* scrape view is open, and at most one is open at any time.               *)
(***************************************************************************)
C7_OneScrapeViewAtATime ==
    /\ Cardinality(pages \ {0}) <= 1
    /\ pc = "loop" => pages \ {0} = {}

(***************************************************************************)
(* C8: records are looked up one at a time, in input order, each exactly   *)
(* once: the k-th lookup is of the k-th record, only the last lookup can   *)
(* be in flight, a lookup starts only after every earlier record has an    *)
(* outcome, and when the loop is over every record was looked up once.     *)
(***************************************************************************)
C8_SerialInOrderNoRetry ==
    /\ \A k \in 1..Len(lookups) : lookups[k].index = k
    /\ Len(lookups) <= Len(rows)
    /\ \A k \in 1..Len(lookups) :
          k < Len(lookups) =>
              /\ lookups[k].status # "pending"
              /\ OutcomesOf(k) # {}
    /\ \A k \in 1..Len(lookups) : lookups[k].status = "pending" <=> (k = idx /\ InLookup)
    /\ (signalled /\ ScrapeOver) => Len(lookups) = Len(rows)

C8_Witness ==
    /\ Len(lookups) = 2
    /\ lookups[1].status = "failed"
    /\ lookups[2].status = "ok"
    /\ ScrapeOver

(***************************************************************************)
(* C9: the run waits for the operator once, with the login view open and   *)
(* before the loop; until the operator has signalled, no lookup has        *)
(* started, no outcome was emitted and no write request was issued.        *)
(***************************************************************************)
C9_NothingBeforeOperatorSignal ==
    /\ pc = "stdin" => ~signalled /\ 0 \in pages /\ browser = "open"
    /\ ~signalled =>
          /\ lookups = <<>>
          /\ results = <<>>
          /\ requests = <<>>
          /\ ~InLookup /\ pc \notin {"loop", "close", "catch"}

C9_Witness ==
    /\ pc = "stdin"
    /\ Len(rows) = 2
    /\ ~signalled

(***************************************************************************)
(* C10: in a run that reaches the write after the session was set up, the  *)
(* rows the batch targets are exactly the rows (index + 2) whose           *)
(* identifier was non-empty at read time, each once and in columns C:D     *)
(* only; a row whose lookup failed is written ("Error", "").               *)
(***************************************************************************)
C10_WrittenRowsAreIdentifiedRows ==
    (signalled /\ updateCalls = 1) =>
        /\ \A i \in 1..Len(table) :
              Cardinality({j \in 1..Len(Written) :
                              Written[j].range = A1Range("C", (i - 1) + 2, "D")})
                 = IF IdOf(table[i]) # "" THEN 1 ELSE 0
        /\ \A j \in 1..Len(Written) :
              \E i \in 1..Len(table) : Written[j].range = A1Range("C", (i - 1) + 2, "D")
        /\ \A k \in 1..Len(lookups) :
              lookups[k].status = "failed" =>
                  \E j \in 1..Len(Written) :
                      /\ Written[j].range = A1Range("C", rows[k].row, "D")
                      /\ Written[j].values = << <<Some("Error"), Some("")>> >>

====
